---- MODULE Spec2Model ----
(***************************************************************************)
(* graphix-symbolic: SympyExpression / SympyParameter                      *)
(* (src/graphix_symbolic/sympy_parameter.py).                              *)
(*                                                                         *)
(* A caller holds one value `cur` (a SympyParameter, a SympyExpression or   *)
(* the number a substitution returned) and calls the methods of the class  *)
(* on it; `last` records the call just made with its receiver, arguments   *)
(* and outcome.  The caller then goes on: an outcome that is an Expression *)
(* or a number becomes the value it holds; on any other outcome            *)
(* (NotImplemented, nan, a raised exception) it keeps the receiver.        *)
(*                                                                         *)
(* The wrapped sympy representation is modelled on the fragment            *)
(*   Lin   k + cx*x + cy*y with rational coefficients (sympy's canonical   *)
(*         Add of Number*Symbol terms),                                    *)
(*   Mul, Div, Pow, Fn   one non-linear node over Lin operands,            *)
(* with sympy's automatic evaluation at construction (collection of like   *)
(* terms, distribution of a Number over an Add, x/x -> 1, x**0 -> 1, ...). *)
(* Floats are exact rationals; values that are not rational stay opaque    *)
(* nodes without free symbols.  Arithmetic on a non-linear representation  *)
(* and results that hit a pole (zoo/nan) are outside the explored inputs.  *)
(***************************************************************************)
EXTENDS Integers, Sequences, FiniteSets, TLC

VARIABLES cur, last

vars == <<cur, last>>

(* ------------------------------------------------------------------ *)
(* Bounds                                                              *)
(* ------------------------------------------------------------------ *)

\* numeric scalars handed in as operands and substitution values: 0..MaxNum
MaxNum == 3

\* Number ** Integer is computed for bases with numerator and denominator up
\* to MaxBase and exponents up to MaxExp
MaxBase == 20

MaxExp == 4

\* an Expression is explored only while the weight of its coefficients is
\* at most MaxWeight
MaxWeight == 4

(* ------------------------------------------------------------------ *)
(* Exact rationals <<n, d>>, d > 0, gcd(n, d) = 1                      *)
(* ------------------------------------------------------------------ *)

Abs(n) == IF n < 0 THEN -n ELSE n

RECURSIVE GCD(_, _)
GCD(a, b) == IF b = 0 THEN a ELSE GCD(b, a % b)

RNorm(n, d) ==
    LET s == IF d < 0 THEN -1 ELSE 1
        g == GCD(Abs(n), Abs(d))
    IN  <<(s * n) \div g, (s * d) \div g>>

Q(n) == <<n, 1>>

RAdd(p, q) == RNorm(p[1] * q[2] + q[1] * p[2], p[2] * q[2])
RNeg(p) == <<-p[1], p[2]>>
RSub(p, q) == RAdd(p, RNeg(q))
RMul(p, q) == RNorm(p[1] * q[1], p[2] * q[2])
\* q # 0
RInv(q) == RNorm(q[2], q[1])
RDiv(p, q) == RMul(p, RInv(q))
RIsInt(q) == q[2] = 1

RECURSIVE IPow(_, _)
IPow(b, e) == IF e = 0 THEN 1 ELSE b * IPow(b, e - 1)

\* integer exponent e; p # 0 when e < 0
RPow(p, e) ==
    IF e >= 0 THEN <<IPow(p[1], e), IPow(p[2], e)>>
    ELSE RNorm(IPow(p[2], -e), IPow(p[1], -e))

RWeight(q) == IF q[1] = 0 THEN 0 ELSE Abs(q[1]) + q[2] - 1

(* ------------------------------------------------------------------ *)
(* The sympy representation (sp.Expr) held in _expression              *)
(* ------------------------------------------------------------------ *)

Syms == {"x", "y"}

\* sp.Symbol(name)
Symbol(nm) ==
    [tag |-> "Lin", konst |-> Q(0),
     coef |-> [s \in Syms |-> IF s = nm THEN Q(1) ELSE Q(0)]]

\* a sympy Number (a sympified Python number)
Const(q) == [tag |-> "Lin", konst |-> q, coef |-> [s \in Syms |-> Q(0)]]

\* sympy's zoo / nan: the result of a division by zero
Zoo == [tag |-> "zoo"]

\* a power too large for the integers of this model
Huge == [tag |-> "huge"]

PowFits(q, n) == Abs(q[1]) <= MaxBase /\ q[2] <= MaxBase /\ Abs(n) <= MaxExp

IsLin(e) == e.tag = "Lin"

LinSyms(L) == {s \in Syms : L.coef[s] # Q(0)}

\* expr.free_symbols
free_symbols(e) ==
    CASE e.tag = "Lin" -> LinSyms(e)
      [] e.tag \in {"Mul", "Div", "Pow"} -> LinSyms(e.lhs) \cup LinSyms(e.rhs)
      [] e.tag = "Fn" -> LinSyms(e.lhs)
      [] OTHER -> {}

IsConst(e) == IsLin(e) /\ LinSyms(e) = {}

\* one term c*s and nothing else
SingleTerm(L) == L.konst = Q(0) /\ Cardinality(LinSyms(L)) = 1

TermSym(L) == CHOOSE s \in Syms : L.coef[s] # Q(0)

Scale(q, L) ==
    [tag |-> "Lin", konst |-> RMul(q, L.konst), coef |-> [s \in Syms |-> RMul(q, L.coef[s])]]

\* Add: like terms are collected
SpAdd(A, B) ==
    [tag |-> "Lin", konst |-> RAdd(A.konst, B.konst),
     coef |-> [s \in Syms |-> RAdd(A.coef[s], B.coef[s])]]

SpNeg(A) == Scale(Q(-1), A)

SpSub(A, B) == SpAdd(A, SpNeg(B))

\* Mul: a Number distributes over an Add (0 absorbs); two symbolic factors stay
SpMul(A, B) ==
    IF IsConst(A) THEN Scale(A.konst, B)
    ELSE IF IsConst(B) THEN Scale(B.konst, A)
    ELSE [tag |-> "Mul", lhs |-> A, rhs |-> B]

\* Pow: x**0 -> 1, x**1 -> x, 1**x -> 1, Number**Integer is evaluated
SpPow(A, B) ==
    IF IsConst(B) /\ B.konst = Q(0) THEN Const(Q(1))
    ELSE IF IsConst(B) /\ B.konst = Q(1) THEN A
    ELSE IF IsConst(A) /\ A.konst = Q(1) THEN Const(Q(1))
    ELSE IF IsConst(A) /\ IsConst(B) /\ RIsInt(B.konst) THEN
        IF A.konst = Q(0) /\ B.konst[1] < 0 THEN Zoo
        ELSE IF ~PowFits(A.konst, B.konst[1]) THEN Huge
        ELSE Const(RPow(A.konst, B.konst[1]))
    ELSE [tag |-> "Pow", lhs |-> A, rhs |-> B]

\* A / B is Mul(A, Pow(B, -1)): equal bases cancel
SpDiv(A, B) ==
    IF IsConst(B) THEN (IF B.konst = Q(0) THEN Zoo ELSE Scale(RInv(B.konst), A))
    ELSE IF IsConst(A) /\ A.konst = Q(0) THEN Const(Q(0))
    ELSE IF A = B THEN Const(Q(1))
    ELSE IF SingleTerm(A) /\ SingleTerm(B) /\ TermSym(A) = TermSym(B)
        THEN Const(RDiv(A.coef[TermSym(A)], B.coef[TermSym(B)]))
    ELSE [tag |-> "Div", lhs |-> A, rhs |-> B]

\* sp.sin, sp.cos, ...: an unevaluated function node (its value stays opaque)
SpFn(fn, A) == [tag |-> "Fn", lhs |-> A, func |-> fn]

\* sp.sqrt(e) is Pow(e, 1/2)
SpSqrt(A) == SpPow(A, Const(<<1, 2>>))

\* replacing symbol s by the Number or Lin V inside a Lin
LinSubs(L, s, V) ==
    SpAdd([L EXCEPT !.coef[s] = Q(0)], Scale(L.coef[s], V))

\* expr.subs(symbol, V): the operands are replaced and the node rebuilt
SpSubs(e, s, V) ==
    CASE e.tag = "Lin" -> LinSubs(e, s, V)
      [] e.tag = "Mul" -> SpMul(LinSubs(e.lhs, s, V), LinSubs(e.rhs, s, V))
      [] e.tag = "Div" -> SpDiv(LinSubs(e.lhs, s, V), LinSubs(e.rhs, s, V))
      [] e.tag = "Pow" -> SpPow(LinSubs(e.lhs, s, V), LinSubs(e.rhs, s, V))
      [] e.tag = "Fn" -> SpFn(e.func, LinSubs(e.lhs, s, V))
      [] OTHER -> e

\* sp.N: numeric evaluation; floats are the exact rationals of this model
N(e) == e

LinWeight(L) ==
    RWeight(L.konst) + RWeight(L.coef["x"]) + RWeight(L.coef["y"])

Weight(e) ==
    CASE e.tag = "Lin" -> LinWeight(e)
      [] e.tag \in {"Mul", "Div", "Pow"} -> LinWeight(e.lhs) + LinWeight(e.rhs)
      [] e.tag = "Fn" -> LinWeight(e.lhs)
      [] OTHER -> 0

(* ------------------------------------------------------------------ *)
(* Python values                                                       *)
(* ------------------------------------------------------------------ *)

\* SympyExpression.__init__
SympyExpression(expression) ==
    [kind |-> "SympyExpression", rep |-> expression, name |-> ""]

\* SympyParameter.__init__
SympyParameter(nm) ==
    [kind |-> "SympyParameter", rep |-> Symbol(nm), name |-> nm]

\* a Python int handed in by the caller
PyInt(n) == [kind |-> "int", num |-> Const(Q(n))]

\* complex(result): the number a substitution returns
Complex(e) == [kind |-> "complex", num |-> e]

\* np.nan
NaN == [kind |-> "float", nan |-> TRUE]

NotImplemented == [kind |-> "NotImplementedType"]

Raise(e) == [kind |-> "raise", exc |-> e]

None == [kind |-> "NoneType"]

\* objects that are neither numbers nor Expressions of this system: a str and
\* a placeholder of another symbolic system
Others == {[kind |-> "str"], [kind |-> "Placeholder"]}

\* isinstance(o, numbers.Number)
IsNumber(o) == o.kind \in {"int", "complex"}

\* isinstance(o, SympyExpression): SympyParameter is a subclass
IsSympyExpression(o) == o.kind \in {"SympyExpression", "SympyParameter"}

\* isinstance(o, SympyParameter)
IsSympyParameter(o) == o.kind = "SympyParameter"

\* the attributes the class body of SympyExpression defines
Methods ==
    {"__init__", "__mul__", "__rmul__", "__add__", "__radd__", "__sub__",
     "__rsub__", "__pow__", "__rpow__", "__neg__", "__truediv__",
     "__rtruediv__", "__mod__", "sin", "cos", "tan", "arcsin", "arccos",
     "arctan", "exp", "log", "conjugate", "sqrt", "expression", "__repr__",
     "__str__", "subs"}

\* attribute lookup on a value: an Expression offers the methods of its class,
\* a plain number none of them
HasAttr(o, attr) == IsSympyExpression(o) /\ attr \in Methods

(* ------------------------------------------------------------------ *)
(* SympyExpression: arithmetic                                         *)
(* ------------------------------------------------------------------ *)

__mul__(self, other) ==
    IF IsNumber(other) THEN SympyExpression(SpMul(self.rep, other.num))
    ELSE IF IsSympyExpression(other) THEN SympyExpression(SpMul(self.rep, other.rep))
    ELSE NotImplemented

__rmul__(self, other) ==
    IF IsNumber(other) THEN SympyExpression(SpMul(other.num, self.rep))
    ELSE IF IsSympyExpression(other) THEN SympyExpression(SpMul(other.rep, self.rep))
    ELSE NotImplemented

__add__(self, other) ==
    IF IsNumber(other) THEN SympyExpression(SpAdd(self.rep, other.num))
    ELSE IF IsSympyExpression(other) THEN SympyExpression(SpAdd(self.rep, other.rep))
    ELSE NotImplemented

__radd__(self, other) ==
    IF IsNumber(other) THEN SympyExpression(SpAdd(other.num, self.rep))
    ELSE IF IsSympyExpression(other) THEN SympyExpression(SpAdd(other.rep, self.rep))
    ELSE NotImplemented

__sub__(self, other) ==
    IF IsNumber(other) THEN SympyExpression(SpSub(self.rep, other.num))
    ELSE IF IsSympyExpression(other) THEN SympyExpression(SpSub(self.rep, other.rep))
    ELSE NotImplemented

\* a reflected subtraction that takes the operands in the forward order
rsubForward(self, other) ==
    IF IsNumber(other) THEN SympyExpression(SpSub(self.rep, other.num))
    ELSE IF IsSympyExpression(other) THEN SympyExpression(SpSub(self.rep, other.rep))
    ELSE NotImplemented

__rsub__(self, other) ==
    IF IsNumber(other) THEN SympyExpression(SpSub(other.num, self.rep))
    ELSE IF IsSympyExpression(other) THEN SympyExpression(SpSub(other.rep, self.rep))
    ELSE NotImplemented

__pow__(self, other) ==
    IF IsNumber(other) THEN SympyExpression(SpPow(self.rep, other.num))
    ELSE IF IsSympyExpression(other) THEN SympyExpression(SpPow(self.rep, other.rep))
    ELSE NotImplemented

\* a reflected power that raises instead of declining
rpowRaising(self, other) ==
    IF IsNumber(other) THEN SympyExpression(SpPow(other.num, self.rep))
    ELSE IF IsSympyExpression(other) THEN SympyExpression(SpPow(other.rep, self.rep))
    ELSE Raise("TypeError")

__rpow__(self, other) ==
    IF IsNumber(other) THEN SympyExpression(SpPow(other.num, self.rep))
    ELSE IF IsSympyExpression(other) THEN SympyExpression(SpPow(other.rep, self.rep))
    ELSE NotImplemented

__neg__(self) == SympyExpression(SpNeg(self.rep))

\* a division that takes the operands in the reflected order
truedivReflected(self, other) ==
    IF IsNumber(other) THEN SympyExpression(SpDiv(other.num, self.rep))
    ELSE IF IsSympyExpression(other) THEN SympyExpression(SpDiv(other.rep, self.rep))
    ELSE NotImplemented

__truediv__(self, other) ==
    IF IsNumber(other) THEN SympyExpression(SpDiv(self.rep, other.num))
    ELSE IF IsSympyExpression(other) THEN SympyExpression(SpDiv(self.rep, other.rep))
    ELSE NotImplemented

__rtruediv__(self, other) ==
    IF IsNumber(other) THEN SympyExpression(SpDiv(other.num, self.rep))
    ELSE IF IsSympyExpression(other) THEN SympyExpression(SpDiv(other.rep, self.rep))
    ELSE NotImplemented

\* a modulo that declines like the other operators
modDeclining(self, other) ==
    IF IsNumber(other) \/ IsSympyExpression(other) THEN NaN ELSE NotImplemented

\* __mod__: nan whatever the operand
__mod__(self, other) == NaN

sin(self) == SympyExpression(SpFn("sin", self.rep))

cos(self) == SympyExpression(SpFn("cos", self.rep))

tan(self) == SympyExpression(SpFn("tan", self.rep))

arcsin(self) == SympyExpression(SpFn("arcsin", self.rep))

arccos(self) == SympyExpression(SpFn("arccos", self.rep))

arctan(self) == SympyExpression(SpFn("arctan", self.rep))

exp(self) == SympyExpression(SpFn("exp", self.rep))

log(self) == SympyExpression(SpFn("log", self.rep))

conjugate(self) == SympyExpression(SpFn("conjugate", self.rep))

sqrt(self) == SympyExpression(SpSqrt(self.rep))

(* ------------------------------------------------------------------ *)
(* SympyExpression.subs                                                *)
(* ------------------------------------------------------------------ *)

\* What sympy's Basic.subs does with a replacement value it cannot sympify (a
\* SympyExpression is no sympy object and offers no _sympy_ conversion): it
\* raises SympifyError, or, in the releases that skip such a pair, leaves the
\* expression as it was.
SympifyOutcomes == {"raise", "skip"}

\* subs without the isinstance check: a variable of another kind is ignored
subsUnchecked(self, variable, value, sympify) ==
    IF ~IsSympyParameter(variable) THEN SympyExpression(self.rep)
    ELSE IF ~IsNumber(value) /\ sympify = "raise" THEN Raise("SympifyError")
    ELSE
        LET result == N(IF IsNumber(value)
                        THEN SpSubs(self.rep, variable.name, value.num)
                        ELSE self.rep)
        IN  IF IsConst(result) \/ free_symbols(result) = {}
            THEN Complex(result)
            ELSE SympyExpression(result)

\* subs without the collapse to a number
subsAlwaysSymbolic(self, variable, value, sympify) ==
    IF ~IsSympyParameter(variable) THEN Raise("ValueError")
    ELSE IF ~IsNumber(value) /\ sympify = "raise" THEN Raise("SympifyError")
    ELSE SympyExpression(N(IF IsNumber(value)
                           THEN SpSubs(self.rep, variable.name, value.num)
                           ELSE self.rep))

subs(self, variable, value, sympify) ==
    IF ~IsSympyParameter(variable) THEN Raise("ValueError")
    ELSE IF ~IsNumber(value) /\ sympify = "raise" THEN Raise("SympifyError")
    ELSE
        LET replaced == IF IsNumber(value)
                        THEN SpSubs(self.rep, variable.name, value.num)
                        ELSE self.rep
            result == N(replaced)
        IN  IF IsConst(result) \/ free_symbols(result) = {}
            THEN Complex(result)
            ELSE SympyExpression(result)

(* ------------------------------------------------------------------ *)
(* The caller                                                          *)
(* ------------------------------------------------------------------ *)

Numbers == {PyInt(n) : n \in 0..MaxNum}

Parameters == {SympyParameter(s) : s \in Syms}

Operands == Numbers \cup Parameters \cup Others

\* sympy arithmetic is explored on linear representations
InFragment(self, other) ==
    (IsNumber(other) \/ IsSympyExpression(other)) =>
        /\ IsLin(self.rep)
        /\ IsSympyExpression(other) => IsLin(other.rep)

\* results that hit a pole or leave the integers of the model, and Expressions
\* heavier than MaxWeight, are not explored
Explored(out) ==
    /\ IsSympyExpression(out) =>
          out.rep.tag \notin {"zoo", "huge"} /\ Weight(out.rep) <= MaxWeight
    /\ out.kind = "complex" => out.num.tag \notin {"zoo", "huge"}

\* the record of one call: the method, its receiver, its arguments, its outcome
Call(m, receiver, a, out) ==
    [method |-> m, recv |-> receiver, args |-> a, res |-> out]

\* no call is in progress
NoCall == Call("", None, <<>>, None)

\* the caller calls method m of cur with arguments a; the call returns (or
\* raises) out
Return(m, a, out) ==
    /\ last = NoCall
    /\ Explored(out)
    /\ last' = Call(m, cur, a, out)
    /\ UNCHANGED cur

\* the caller goes on: with the Expression or number the call returned, and
\* otherwise (NotImplemented, nan, an exception it caught) with the receiver
Proceed ==
    /\ last # NoCall
    /\ cur' = IF IsSympyExpression(last.res) \/ last.res.kind = "complex"
              THEN last.res ELSE cur
    /\ last' = NoCall

Init ==
    /\ cur \in Parameters
    /\ last = NoCall

NewParameter ==
    \E nm \in Syms :
        Return("__init__", <<[kind |-> "str", str |-> nm]>>, SympyParameter(nm))

Binary(m, other, out) ==
    /\ last = NoCall
    /\ HasAttr(cur, m)
    /\ InFragment(cur, other)
    /\ Return(m, <<other>>, out)

CallMul == \E other \in Operands : Binary("__mul__", other, __mul__(cur, other))

CallRmul == \E other \in Operands : Binary("__rmul__", other, __rmul__(cur, other))

CallAdd == \E other \in Operands : Binary("__add__", other, __add__(cur, other))

CallRadd == \E other \in Operands : Binary("__radd__", other, __radd__(cur, other))

CallSub == \E other \in Operands : Binary("__sub__", other, __sub__(cur, other))

CallRsub == \E other \in Operands : Binary("__rsub__", other, __rsub__(cur, other))

CallPow == \E other \in Operands : Binary("__pow__", other, __pow__(cur, other))

CallRpow == \E other \in Operands : Binary("__rpow__", other, __rpow__(cur, other))

CallTruediv == \E other \in Operands : Binary("__truediv__", other, __truediv__(cur, other))

CallRtruediv == \E other \in Operands : Binary("__rtruediv__", other, __rtruediv__(cur, other))

CallMod ==
    /\ last = NoCall
    /\ HasAttr(cur, "__mod__")
    /\ \E other \in Operands : Return("__mod__", <<other>>, __mod__(cur, other))

Unary(m, out) ==
    /\ last = NoCall
    /\ HasAttr(cur, m)
    /\ IsLin(cur.rep)
    /\ Return(m, <<>>, out)

CallNeg == Unary("__neg__", __neg__(cur))

CallSin == Unary("sin", sin(cur))

CallCos == Unary("cos", cos(cur))

CallTan == Unary("tan", tan(cur))

CallArcsin == Unary("arcsin", arcsin(cur))

CallArccos == Unary("arccos", arccos(cur))

CallArctan == Unary("arctan", arctan(cur))

CallExp == Unary("exp", exp(cur))

CallLog == Unary("log", log(cur))

CallConjugate == Unary("conjugate", conjugate(cur))

CallSqrt == Unary("sqrt", sqrt(cur))

\* what a caller may pass as the variable of subs: a Parameter, the receiver
\* itself (a plain Expression unless it is a Parameter), a number, anything else
Variables == Parameters \cup {cur} \cup {PyInt(1)} \cup Others

\* what a caller may pass as the value: a number or an Expression
Values == Numbers \cup Parameters

\* cur.subs(variable, value); on a plain number the attribute lookup fails
\* before any argument is looked at
CallSubs ==
    /\ last = NoCall
    /\ IF HasAttr(cur, "subs")
       THEN \E variable \in Variables, value \in Values :
               \E out \in {subs(cur, variable, value, sympify) : sympify \in SympifyOutcomes} :
                   Return("subs", <<variable, value>>, out)
       ELSE Return("subs", <<>>, Raise("AttributeError"))

\* mappings a caller may pass to xreplace: {x: y, y: 1} and all-numeric ones
Mappings ==
    {<<<<SympyParameter("x"), SympyParameter("y")>>, <<SympyParameter("y"), PyInt(1)>>>>}
    \cup {<<<<SympyParameter("x"), n>>, <<SympyParameter("y"), n>>>> : n \in Numbers}

\* cur.xreplace(mapping): the class body defines no xreplace
CallXreplace ==
    /\ last = NoCall
    /\ IsSympyExpression(cur)
    /\ ~HasAttr(cur, "xreplace")
    /\ \E mapping \in Mappings : Return("xreplace", <<mapping>>, Raise("AttributeError"))

\* the reflected method the interpreter looks up for `number op expression`
ReflectedName ==
    [add |-> "__radd__", sub |-> "__rsub__", mul |-> "__rmul__",
     truediv |-> "__rtruediv__", pow |-> "__rpow__", mod |-> "__rmod__"]

ReflectedCall(m, self, other) ==
    CASE m = "__radd__" -> __radd__(self, other)
      [] m = "__rsub__" -> __rsub__(self, other)
      [] m = "__rmul__" -> __rmul__(self, other)
      [] m = "__rtruediv__" -> __rtruediv__(self, other)
      [] m = "__rpow__" -> __rpow__(self, other)
      [] OTHER -> NotImplemented

\* a dispatch that takes the forward __mod__ for the missing reflected one
NumberOpModAliased(op, n, e) ==
    IF op = "mod" THEN __mod__(e, n)
    ELSE IF HasAttr(e, ReflectedName[op]) THEN ReflectedCall(ReflectedName[op], e, n)
    ELSE Raise("TypeError")

\* `n op e` for a number n and an Expression e: the number's own method
\* declines an operand that is no number, the interpreter then calls the
\* reflected method of e's class, and raises TypeError when there is none
NumberOp(op, n, e) ==
    IF HasAttr(e, ReflectedName[op])
    THEN LET out == ReflectedCall(ReflectedName[op], e, n)
         IN  IF out.kind = "NotImplementedType" THEN Raise("TypeError") ELSE out
    ELSE Raise("TypeError")

EvalNumberOp ==
    /\ last = NoCall
    /\ IsSympyExpression(cur)
    /\ IsLin(cur.rep)
    /\ \E op \in DOMAIN ReflectedName, n \in Numbers :
          Return(op, <<n>>, NumberOp(op, n, cur))

Next ==
    \/ NewParameter \/ Proceed
    \/ CallMul \/ CallRmul \/ CallAdd \/ CallRadd \/ CallSub \/ CallRsub
    \/ CallPow \/ CallRpow \/ CallTruediv \/ CallRtruediv \/ CallMod
    \/ CallNeg \/ CallSin \/ CallCos \/ CallTan \/ CallArcsin \/ CallArccos
    \/ CallArctan \/ CallExp \/ CallLog \/ CallConjugate \/ CallSqrt
    \/ CallSubs \/ CallXreplace \/ EvalNumberOp

Spec == Init /\ [][Next]_vars

(* ------------------------------------------------------------------ *)
(* Notation for the properties                                         *)
(* ------------------------------------------------------------------ *)

\* the representation k + cx*x + cy*y with integer coefficients
Lin3(k, cx, cy) ==
    [tag |-> "Lin", konst |-> Q(k),
     coef |-> [s \in Syms |-> IF s = "x" THEN Q(cx) ELSE Q(cy)]]

ParamX == SympyParameter("x")

ParamY == SympyParameter("y")

\* a numeric value for every symbol
Assignments == [Syms -> 0..MaxNum]

\* the rational a linear representation takes under an assignment
LinEval(L, asg) ==
    RAdd(L.konst, RAdd(RMul(L.coef["x"], Q(asg["x"])), RMul(L.coef["y"], Q(asg["y"]))))

\* o.subs(x, asg[x]).subs(y, asg[y]), stopping at the first number; a number
\* is left as it is
SubsAll(o, asg) ==
    IF ~IsSympyExpression(o) THEN o
    ELSE LET first == subs(o, ParamX, PyInt(asg["x"]), "raise")
         IN  IF first.kind = "complex" THEN first
             ELSE subs(first, ParamY, PyInt(asg["y"]), "raise")

\* the call in `last` is a call of subs on an Expression
IsSubsCall == last.method = "subs" /\ IsSympyExpression(last.recv)

BinaryMethods ==
    {"__mul__", "__rmul__", "__add__", "__radd__", "__sub__", "__rsub__",
     "__pow__", "__rpow__", "__truediv__", "__rtruediv__"}

ReflectedMethods == {"__radd__", "__rsub__", "__rmul__", "__rtruediv__", "__rpow__"}

UnaryMethods ==
    {"__neg__", "sin", "cos", "tan", "arcsin", "arccos", "arctan", "exp", "log",
     "conjugate", "sqrt"}

\* p ** q on Python numbers is followed for an integer exponent within the
\* bounds; 0 to a negative power raises ZeroDivisionError
PowDefined(p, q) == RIsInt(q) /\ PowFits(p, q[1]) /\ ~(p = Q(0) /\ q[1] < 0)

\* the operator a binary method stands for has a value on the numbers p (the
\* receiver's) and q (the operand's)
Defined(m, p, q) ==
    CASE m = "__truediv__" -> q # Q(0)
      [] m = "__rtruediv__" -> p # Q(0)
      [] m = "__pow__" -> PowDefined(p, q)
      [] m = "__rpow__" -> PowDefined(q, p)
      [] OTHER -> TRUE

\* that value, by the arithmetic of plain Python numbers
PyArith(m, p, q) ==
    CASE m \in {"__add__", "__radd__"} -> RAdd(p, q)
      [] m = "__sub__" -> RSub(p, q)
      [] m = "__rsub__" -> RSub(q, p)
      [] m \in {"__mul__", "__rmul__"} -> RMul(p, q)
      [] m = "__truediv__" -> RDiv(p, q)
      [] m = "__rtruediv__" -> RDiv(q, p)
      [] m = "__pow__" -> RPow(p, q[1])
      [] m = "__rpow__" -> RPow(q, p[1])

\* the number an operand stands for under an assignment
OperandValue(o, asg) == IF IsNumber(o) THEN o.num.konst ELSE LinEval(o.rep, asg)

(* ------------------------------------------------------------------ *)
(* C1                                                                  *)
(* ------------------------------------------------------------------ *)

\* C1: e.subs(v, n) with a Parameter v and a number n returns a complex number
\* exactly when the representation with v replaced has no free symbols, and
\* otherwise a new Expression wrapping that representation; (x*2 + 1).subs(x, 3)
\* is 7, (x + y).subs(x, 2) is the Expression y + 2, and (y + 2).subs(y, 3) is 5.
C1_SubsResultPolicy ==
    (IsSubsCall /\ IsSympyParameter(last.args[1]) /\ IsNumber(last.args[2])) =>
        LET v == last.args[1].name
            n == last.args[2].num
            replaced == SpSubs(last.recv.rep, v, n)
        IN  /\ (last.res.kind = "complex") <=> (free_symbols(replaced) = {})
            /\ free_symbols(replaced) = {} => last.res = Complex(replaced)
            /\ free_symbols(replaced) # {} => last.res = SympyExpression(replaced)
            /\ v \notin free_symbols(replaced)
            /\ IsLin(last.recv.rep) =>
                  /\ replaced.konst =
                        RAdd(last.recv.rep.konst, RMul(last.recv.rep.coef[v], n.konst))
                  /\ \A s \in Syms \ {v} : replaced.coef[s] = last.recv.rep.coef[s]
            /\ (last.recv.rep = Lin3(1, 2, 0) /\ v = "x" /\ n = Const(Q(3))) =>
                  last.res = Complex(Const(Q(7)))
            /\ (last.recv.rep = Lin3(0, 1, 1) /\ v = "x" /\ n = Const(Q(2))) =>
                  last.res = SympyExpression(Lin3(2, 0, 1))
            /\ (last.recv.rep = Lin3(2, 0, 1) /\ v = "y" /\ n = Const(Q(3))) =>
                  last.res = Complex(Const(Q(5)))

\* (x*2 + 1).subs(x, 3) has returned 7
C1_Witness ==
    /\ IsSubsCall
    /\ last.recv.rep = Lin3(1, 2, 0)
    /\ last.args = <<ParamX, PyInt(3)>>
    /\ last.res = Complex(Const(Q(7)))

(* ------------------------------------------------------------------ *)
(* C2                                                                  *)
(* ------------------------------------------------------------------ *)

\* C2: xreplace applies all replacements of the mapping at once:
\* (x + y).xreplace({x: y, y: 1}) is the Expression y + 1, and a mapping that
\* gives every free symbol a number yields a number.
C2_XreplaceSimultaneous ==
    (last.method = "xreplace" /\ last.recv.rep = Lin3(0, 1, 1)) =>
        /\ last.args[1] = <<<<ParamX, ParamY>>, <<ParamY, PyInt(1)>>>> =>
              last.res = SympyExpression(Lin3(1, 0, 1))
        /\ (IsNumber(last.args[1][1][2]) /\ IsNumber(last.args[1][2][2])) =>
              last.res.kind = "complex"

(* ------------------------------------------------------------------ *)
(* C3                                                                  *)
(* ------------------------------------------------------------------ *)

\* C3: subs with a variable that is no Parameter of this system (a plain
\* Expression, a number, a foreign placeholder) raises the incompatible-variable
\* error (ValueError), whatever the value and whether or not the variable occurs
\* in the receiver; nothing is returned and the receiver is as it was.
C3_SubsRejectsNonParameter ==
    (IsSubsCall /\ ~IsSympyParameter(last.args[1])) =>
        /\ last.res = Raise("ValueError")
        /\ cur = last.recv

\* subs was called with the receiver itself, a plain Expression, as variable
C3_Witness ==
    /\ IsSubsCall
    /\ last.args[1] = last.recv
    /\ last.recv.kind = "SympyExpression"
    /\ free_symbols(last.recv.rep) # {}
    /\ last.res = Raise("ValueError")

(* ------------------------------------------------------------------ *)
(* C4                                                                  *)
(* ------------------------------------------------------------------ *)

\* C4: the reflected operators keep the operand order.  For an Expression a and
\* a number n, whether the reflected method is called directly or reached by
\* evaluating `n op a`: the result is an Expression; n + a is a + n and n * a is
\* a * n; and under every numeric assignment of the parameters n - a has the
\* value -(a - n), n / a the value 1/(a/n), and n ** a the value of n to the
\* power a, wherever these are defined.
C4_ReflectedKeepOrder ==
    LET m == IF last.method \in DOMAIN ReflectedName
             THEN ReflectedName[last.method] ELSE last.method
    IN  (m \in ReflectedMethods /\ IsSympyExpression(last.recv)
            /\ IsNumber(last.args[1])) =>
        LET a == last.recv
            n == last.args[1]
        IN  /\ last.res.kind = "SympyExpression"
            /\ m = "__radd__" => last.res = __add__(a, n)
            /\ m = "__rmul__" => last.res = __mul__(a, n)
            /\ \A asg \in Assignments :
                  LET p == LinEval(a.rep, asg)
                      q == n.num.konst
                      v == SubsAll(last.res, asg)
                  IN  Defined(m, p, q) =>
                        /\ v = Complex(Const(PyArith(m, p, q)))
                        /\ m = "__rsub__" => v.num.konst = RNeg(RSub(p, q))
                        /\ (m = "__rtruediv__" /\ q # Q(0)) =>
                              v.num.konst = RInv(RDiv(p, q))
                        /\ m = "__rpow__" => v.num.konst = RPow(q, p[1])

\* 2 - (x + 1) was evaluated and is the Expression 1 - x
C4_Witness ==
    /\ last.method = "sub"
    /\ last.recv.rep = Lin3(1, 1, 0)
    /\ last.args = <<PyInt(2)>>
    /\ last.res = SympyExpression(Lin3(1, -1, 0))

(* ------------------------------------------------------------------ *)
(* C5                                                                  *)
(* ------------------------------------------------------------------ *)

\* C5: e % x is the float nan for every Expression e and every operand x: a
\* number, an Expression or anything else.
C5_ModIsNaN ==
    (last.method = "__mod__" /\ IsSympyExpression(last.recv)) => last.res = NaN

\* a modulo by an object that is neither number nor Expression has returned nan
C5_Witness ==
    /\ last.method = "__mod__"
    /\ last.args[1].kind = "Placeholder"
    /\ last.recv.rep.tag = "Mul"
    /\ last.res = NaN

(* ------------------------------------------------------------------ *)
(* C6                                                                  *)
(* ------------------------------------------------------------------ *)

\* C6 as claimed: n % e for a number n and an Expression e evaluates to nan.
C6_ReflectedModIsNaN ==
    (last.method = "mod" /\ IsSympyExpression(last.recv)) => last.res = NaN

\* C6 as amended: n % e for a number n and an Expression e ends in a TypeError:
\* the class defines no reflected modulo for the interpreter to call once the
\* number has declined; nan comes only from e % x.
C6_ReflectedModRaises ==
    (last.method = "mod" /\ IsSympyExpression(last.recv)) =>
        /\ ~HasAttr(last.recv, "__rmod__")
        /\ last.res = Raise("TypeError")

\* 2 % (x*2 + 1) was evaluated
C6_Witness ==
    /\ last.method = "mod"
    /\ last.recv.rep = Lin3(1, 2, 0)
    /\ last.args = <<PyInt(2)>>
    /\ last.res = Raise("TypeError")

(* ------------------------------------------------------------------ *)
(* C7                                                                  *)
(* ------------------------------------------------------------------ *)

\* C7: subs accepts another Expression as value: the symbol of the variable is
\* replaced by the value's representation and a new Expression is returned,
\* e.g. (x*2 + 1).subs(x, y) is the Expression 2*y + 1; it does not raise.
C7_SubsAcceptsExpressionValue ==
    (IsSubsCall /\ IsSympyParameter(last.args[1]) /\ IsSympyExpression(last.args[2])
        /\ IsLin(last.recv.rep)) =>
        LET replaced == LinSubs(last.recv.rep, last.args[1].name, last.args[2].rep)
        IN  /\ last.res.kind # "raise"
            /\ free_symbols(replaced) # {} => last.res = SympyExpression(replaced)
            /\ (last.recv.rep = Lin3(1, 2, 0) /\ last.args = <<ParamX, ParamY>>) =>
                  last.res = SympyExpression(Lin3(1, 0, 2))

(* ------------------------------------------------------------------ *)
(* C8                                                                  *)
(* ------------------------------------------------------------------ *)

\* C8: substitution commutes with building an expression.  For every call of an
\* arithmetic operator or a transform that built an Expression, and every
\* numeric assignment of the parameters: substituting all parameters in the
\* result gives the number that the operator gives on the substituted operands
\* (wherever plain-number arithmetic defines it), and the transform of the
\* substituted operand.
C8_SubsCommutesWithBuilding ==
    /\ (last.method \in BinaryMethods /\ IsSympyExpression(last.recv)
            /\ IsSympyExpression(last.res)) =>
          \A asg \in Assignments :
              LET p == OperandValue(last.recv, asg)
                  q == OperandValue(last.args[1], asg)
              IN  Defined(last.method, p, q) =>
                     SubsAll(last.res, asg) = Complex(Const(PyArith(last.method, p, q)))
    /\ (last.method \in UnaryMethods /\ IsSympyExpression(last.recv)) =>
          \A asg \in Assignments :
              LET p == Const(OperandValue(last.recv, asg))
              IN  SubsAll(last.res, asg) =
                     Complex(CASE last.method = "__neg__" -> SpNeg(p)
                               [] last.method = "sqrt" -> SpSqrt(p)
                               [] OTHER -> SpFn(last.method, p))

\* (x + 1) / y was built: a quotient that stays symbolic in both operands
C8_Witness ==
    /\ last.method = "__truediv__"
    /\ last.recv.rep = Lin3(1, 1, 0)
    /\ last.args = <<ParamY>>
    /\ last.res.kind = "SympyExpression"
    /\ last.res.rep.tag = "Div"
    /\ free_symbols(last.res.rep) = {"x", "y"}


(* ------------------------------------------------------------------ *)
(* C9                                                                  *)
(* ------------------------------------------------------------------ *)

\* C9: once a substitution has left no free symbols, any further substitution,
\* with any Parameter and any value, returns the same numeric value: both subs
\* on the number a collapsing subs returned and subs on an Expression whose
\* representation has no free symbols (x - x, x * 0).
C9_FullSubstitutionIdempotent ==
    /\ (last.method = "subs" /\ last.recv.kind = "complex") => last.res = last.recv
    /\ (IsSubsCall /\ free_symbols(last.recv.rep) = {}
            /\ IsSympyParameter(last.args[1])) =>
          last.res = Complex(last.recv.rep)

(* ------------------------------------------------------------------ *)
(* C10                                                                 *)
(* ------------------------------------------------------------------ *)

\* C10: each binary arithmetic method, forward and reflected, returns
\* NotImplemented for an operand that is neither an Expression nor a number (it
\* neither raises nor builds an Expression, and the receiver is as it was), and
\* returns a new Expression for an Expression or a number.
C10_UnsupportedOperandDeclines ==
    (last.method \in BinaryMethods /\ IsSympyExpression(last.recv)) =>
        /\ cur = last.recv
        /\ IF IsNumber(last.args[1]) \/ IsSympyExpression(last.args[1])
           THEN last.res.kind = "SympyExpression"
           ELSE last.res = NotImplemented

\* a reflected power with a foreign placeholder as base has declined
C10_Witness ==
    /\ last.method = "__rpow__"
    /\ last.args[1].kind = "Placeholder"
    /\ IsSympyExpression(last.recv)
    /\ last.res = NotImplemented

====
